---------------------------- MODULE Spec2Model ----------------------------
(***************************************************************************)
(* Model of the two JSONL batch scripts of the repository:                 *)
(*   Scripts/dedupe_jsonl_by_code.py     (the deduplicator)                *)
(*   Scripts/extract_minimal_dataset.py  (the extractor)                   *)
(*                                                                         *)
(* One behaviour is one invocation of one script on one input file (the    *)
(* deduplicator may be invoked a second time on the file it wrote).  One   *)
(* iteration of the script's "for line in src" loop is one action.         *)
(***************************************************************************)
EXTENDS Integers, Sequences, FiniteSets

VARIABLES
    script,     \* which script runs: "dedupe" or "extract"
    run,        \* 1 for the first invocation, 2 for the deduplicator run on its own output
    input,      \* the lines of the input file
    pos,        \* number of lines the file iterator has handed out
    pc,         \* "loop", "done" (summary printed) or "crashed" (uncaught exception)
    seen,       \* dedupe: seen
    kept,       \* dedupe: kept
    written,    \* extract: written
    total,      \* both: total
    output,     \* the lines written to the output file
    summary     \* the numbers of the printed summary line, <<>> before it is printed

vars == <<script, run, input, pos, pc, seen, kept, written, total, output, summary>>

\* Longest input file of the deduplicator.
MaxLines == 3
\* Longest input file of the extractor.
MaxProducts == 2

-----------------------------------------------------------------------------
(***************************************************************************)
(* Python / JSON values.  Every value is a record [t, v]; t is the Python  *)
(* type.  A str is kept as its stripped core and a flag for surrounding    *)
(* whitespace, so that str.strip() and truthiness can be computed.  A      *)
(* float is a class (finite, nan, inf) and, when finite, a number of       *)
(* tenths.  "bigint" is a Python int too large for float().                *)
(***************************************************************************)
None == [t |-> "null", v |-> "null"]
PyBool(b) == [t |-> "bool", v |-> b]
PyInt(n) == [t |-> "int", v |-> n]
BigInt == [t |-> "bigint", v |-> "10**400"]
PyFloat(n) == [t |-> "float", v |-> [c |-> "finite", n |-> n]]
NaN == [t |-> "float", v |-> [c |-> "nan", n |-> 0]]
Infinity == [t |-> "float", v |-> [c |-> "inf", n |-> 0]]
PyStr(core, pad) == [t |-> "str", v |-> [core |-> core, pad |-> pad]]
PyList(items) == [t |-> "list", v |-> items]
PyDict(pairs) == [t |-> "dict", v |-> pairs]
Pair(key, x) == [k |-> key, x |-> x]

\* isinstance(x, str), isinstance(x, dict)
IsStr(x) == x.t = "str"
IsDict(x) == x.t = "dict"

\* str.strip()
StrStrip(s) == PyStr(s.v.core, FALSE)
\* bool(s) of a str: the empty string is the only falsy one
StrTruthy(s) == s.v.core # "" \/ s.v.pad

\* dict.get(key): the value stored under key, None when absent
Get(d, key) ==
    LET hits == {i \in 1..Len(d.v) : d.v[i].k = key}
    IN  IF hits = {} THEN None ELSE d.v[CHOOSE i \in hits : TRUE].x

\* d[key] = x on an insertion-ordered dict
DictSet(pairs, key, x) ==
    IF \E i \in 1..Len(pairs) : pairs[i].k = key
    THEN [i \in 1..Len(pairs) |-> IF pairs[i].k = key THEN Pair(key, x) ELSE pairs[i]]
    ELSE Append(pairs, Pair(key, x))

-----------------------------------------------------------------------------
(***************************************************************************)
(* Text lines.  A line is [k, ws, fmt, doc]: k is "blank" (nothing but     *)
(* whitespace), "bad" (text json.loads rejects) or "json"; ws tells        *)
(* whether whitespace other than the newline surrounds it; fmt is the      *)
(* separator style of a JSON text ("compact" or the "dumps" style of       *)
(* json.dumps); doc is the document as written, where an object is its     *)
(* sequence of members, duplicate keys included.                           *)
(***************************************************************************)
NoDoc == [t |-> "none", v |-> "none"]
BlankLine == [k |-> "blank", ws |-> TRUE, fmt |-> "", doc |-> NoDoc]
BadLine == [k |-> "bad", ws |-> FALSE, fmt |-> "", doc |-> NoDoc]
JsonLine(doc, fmt, ws) == [k |-> "json", ws |-> ws, fmt |-> fmt, doc |-> doc]

\* line.strip()
Strip(line) == [line EXCEPT !.ws = FALSE]
\* not line
IsEmpty(line) == line.k = "blank" /\ ~line.ws

\* The object json.loads builds from a document: members are stored in
\* order, a repeated key overwrites the value stored first.
RECURSIVE Build(_)
RECURSIVE BuildMembers(_, _)
BuildMembers(members, acc) ==
    IF members = <<>> THEN acc
    ELSE BuildMembers(Tail(members),
                      DictSet(acc, Head(members).k, Build(Head(members).x)))
Build(doc) ==
    IF doc.t = "dict" THEN PyDict(BuildMembers(doc.v, <<>>)) ELSE doc

\* A variant of json.loads whose failure is not turned into a skip: the
\* rejected text comes back as None.
JsonLoadsNoRaise(text) ==
    [ok |-> TRUE, value |-> IF text.k = "json" THEN Build(text.doc) ELSE None]
\* json.loads(line): ok is FALSE when json.JSONDecodeError is raised
JsonLoads(text) ==
    IF text.k = "json"
    THEN [ok |-> TRUE, value |-> Build(text.doc)]
    ELSE [ok |-> FALSE, value |-> None]

\* json.dumps(value, ensure_ascii=False)
JsonDumps(value) == JsonLine(value, "dumps", FALSE)

-----------------------------------------------------------------------------
(***************************************************************************)
(* The deduplicator.                                                       *)
(***************************************************************************)
A == PyStr("A", FALSE)
B == PyStr("B", FALSE)

DedupeLines ==
    { BlankLine,
      BadLine,
      JsonLine(PyDict(<<Pair("code", A)>>), "compact", FALSE),
      JsonLine(PyDict(<<Pair("code", A), Pair("n", PyInt(1))>>), "dumps", TRUE),
      JsonLine(PyDict(<<Pair("code", B)>>), "compact", FALSE),
      JsonLine(PyDict(<<Pair("code", A), Pair("code", B)>>), "compact", FALSE),
      JsonLine(PyDict(<<Pair("code", PyInt(1))>>), "compact", FALSE),
      JsonLine(PyDict(<<Pair("n", PyInt(1))>>), "dumps", FALSE),
      JsonLine(PyList(<<PyInt(1)>>), "compact", FALSE),
      JsonLine(None, "compact", FALSE),
      JsonLine(A, "compact", FALSE) }

SeqsUpTo(S, n) == UNION {[1..m -> S] : m \in 0..n}

\* A duplicate test that never fires.
IsDuplicateNever(code, s) == FALSE
\* code in seen
IsDuplicate(code, s) == code \in s

\* seen.add(code)
AddSeen(s, code) == s \cup {code}

\* A write that puts the new line first.
WriteLineFirst(out, text) == <<text>> \o out
\* A write without the "\n": the file ends up as one line, which holds
\* several documents as soon as two records were written.
WriteLineNoNewline(out, text) ==
    IF out = <<>> THEN <<text>> ELSE <<BadLine>>
\* dst.write(text + "\n")
WriteLine(out, text) == Append(out, text)

\* A counter that is not incremented.
KeptAfterWriteSame(k) == k
\* kept += 1
KeptAfterWrite(k) == k + 1

\* total - kept, the number the summary reports as duplicates dropped
Dropped(t, k) == t - k

\* One iteration of the loop of main().
DedupeLine ==
    /\ script = "dedupe" /\ pc = "loop" /\ pos < Len(input)
    /\ pos' = pos + 1
    /\ total' = total + 1
    /\ LET line == Strip(input[pos + 1])
           r == JsonLoads(line)
           code == Get(r.value, "code")
       IN  IF IsEmpty(line) \/ ~r.ok
           THEN UNCHANGED <<pc, seen, kept, output>>
           ELSE IF ~IsDict(r.value)
           THEN \* AttributeError: no attribute 'get'
                pc' = "crashed" /\ UNCHANGED <<seen, kept, output>>
           ELSE IF ~IsStr(code) \/ IsDuplicate(code, seen)
           THEN UNCHANGED <<pc, seen, kept, output>>
           ELSE /\ seen' = AddSeen(seen, code)
                /\ output' = WriteLine(output, JsonDumps(r.value))
                /\ kept' = KeptAfterWrite(kept)
                /\ pc' = pc
    /\ UNCHANGED <<script, run, input, written, summary>>

\* The loop is exhausted: the files are closed and the summary is printed.
DedupeSummary ==
    /\ script = "dedupe" /\ pc = "loop" /\ pos = Len(input)
    /\ pc' = "done"
    /\ summary' = <<total, kept, Dropped(total, kept)>>
    /\ UNCHANGED <<script, run, input, pos, seen, kept, written, total, output>>

\* The deduplicator is started again, on the file the first run wrote.
DedupeRerun ==
    /\ script = "dedupe" /\ run = 1 /\ pc \in {"done", "crashed"}
    /\ run' = 2
    /\ input' = output
    /\ output' = <<>>
    /\ seen' = {} /\ kept' = 0 /\ total' = 0 /\ pos' = 0
    /\ pc' = "loop" /\ summary' = <<>>
    /\ UNCHANGED <<script, written>>

-----------------------------------------------------------------------------
(***************************************************************************)
(* The extractor.                                                          *)
(***************************************************************************)
NameKeys == <<"product_name", "product_name_en", "generic_name", "generic_name_en">>

\* isinstance(value, str) and value.strip()
UsableStr(value) == IsStr(value) /\ StrTruthy(StrStrip(value))

RECURSIVE ChooseNameFrom(_, _)
ChooseNameFrom(product, keys) ==
    IF keys = <<>>
    THEN LET brands == Get(product, "brands")
         IN  IF UsableStr(brands) THEN StrStrip(brands) ELSE None
    ELSE LET value == Get(product, Head(keys))
         IN  IF UsableStr(value) THEN StrStrip(value)
             ELSE ChooseNameFrom(product, Tail(keys))

\* A name lookup that tries the brand string first.
ChooseNameBrandsFirst(product) ==
    LET brands == Get(product, "brands")
    IN  IF UsableStr(brands) THEN StrStrip(brands)
        ELSE ChooseNameFrom(product, NameKeys)
\* choose_name(product)
ChooseName(product) == ChooseNameFrom(product, NameKeys)

\* isinstance(x, (int, float)): bool is a subclass of int
IsIntOrFloat(x) == x.t \in {"int", "bigint", "bool", "float"}

\* float(x) of an int or a float; an int beyond the float range raises
OverflowError == [t |-> "raise", v |-> "OverflowError"]
ToFloat(x) ==
    CASE x.t = "float" -> x
      [] x.t = "int" -> PyFloat(x.v * 10)
      [] x.t = "bool" -> PyFloat(IF x.v THEN 10 ELSE 0)
      [] x.t = "bigint" -> OverflowError

\* choose_score(product)
ChooseScore(product) ==
    LET candidate == Get(product, "nutriscore_score")
        nutriscore_data == Get(product, "nutriscore_data")
        score == Get(nutriscore_data, "score")
        legacy == Get(product, "nutrition_score_fr_100g")
    IN  IF IsIntOrFloat(candidate) THEN ToFloat(candidate)
        ELSE IF IsDict(nutriscore_data) /\ IsIntOrFloat(score) THEN ToFloat(score)
        ELSE IF IsIntOrFloat(legacy) THEN ToFloat(legacy)
        ELSE None

\* entry = {"code": code.strip(), "score": score, "name": name}
Entry(code, score, name) ==
    PyDict(<<Pair("code", StrStrip(code)), Pair("score", score), Pair("name", name)>>)

\* One iteration of the loop of main().  (The sink.flush() every 100000
\* entries moves buffered text to the file and changes nothing the file
\* holds once it is closed.)
ExtractLine ==
    /\ script = "extract" /\ pc = "loop" /\ pos < Len(input)
    /\ pos' = pos + 1
    /\ total' = total + 1
    /\ LET line == Strip(input[pos + 1])
           r == JsonLoads(line)
           product == r.value
           code == Get(product, "code")
           score == ChooseScore(product)
           name == ChooseName(product)
       IN  IF IsEmpty(line) \/ ~r.ok
           THEN UNCHANGED <<pc, written, output>>
           ELSE IF ~IsDict(product)
           THEN \* AttributeError: no attribute 'get'
                pc' = "crashed" /\ UNCHANGED <<written, output>>
           ELSE IF ~UsableStr(code)
           THEN UNCHANGED <<pc, written, output>>
           ELSE IF score = OverflowError
           THEN pc' = "crashed" /\ UNCHANGED <<written, output>>
           ELSE IF score = None \/ name = None
           THEN UNCHANGED <<pc, written, output>>
           ELSE /\ output' = WriteLine(output, JsonDumps(Entry(code, score, name)))
                /\ written' = written + 1
                /\ pc' = pc
    /\ UNCHANGED <<script, run, input, seen, kept, summary>>

\* The loop is exhausted: the files are closed and the summary is printed.
ExtractSummary ==
    /\ script = "extract" /\ pc = "loop" /\ pos = Len(input)
    /\ pc' = "done"
    /\ summary' = <<total, written>>
    /\ UNCHANGED <<script, run, input, pos, seen, kept, written, total, output>>

(***************************************************************************)
(* The product lines the extractor is run on.                              *)
(***************************************************************************)
Absent == [t |-> "absent", v |-> "absent"]
\* A JSON object text with the members that are present.
Obj(pairs) == PyDict(SelectSeq(pairs, LAMBDA p : p.x.t # "absent"))

NameFields == NameKeys \o <<"brands">>
GoodName == <<PyStr("Test", FALSE), PyStr("TestEn", TRUE), PyStr("Fallback", FALSE),
              PyStr("FallbackEn", TRUE), PyStr("Brand", TRUE)>>
Unusable == <<PyStr("", FALSE), PyStr("", TRUE), PyInt(7), Absent>>

\* Fields before the f-th are unusable, the f-th is usable, the later ones
\* are usable or absent.
NameMembers(f, rot, rest) ==
    [i \in 1..Len(NameFields) |->
        Pair(NameFields[i],
             IF i < f THEN Unusable[((i + rot) % Len(Unusable)) + 1]
             ELSE IF i = f \/ rest THEN GoodName[i]
             ELSE Absent)]

ScoreMembers(s1, nd, lg) ==
    <<Pair("nutriscore_score", s1), Pair("nutriscore_data", nd),
      Pair("nutrition_score_fr_100g", lg)>>

DataWith(x) == PyDict(<<Pair("grade", PyStr("b", FALSE)), Pair("score", x)>>)

ScoreTriples ==
    ({Absent, PyInt(-1), PyFloat(25), PyBool(TRUE), PyStr("3", FALSE), None, NaN, BigInt}
        \X {DataWith(PyInt(2))} \X {PyInt(3)})
    \cup ({Absent}
        \X {Absent, PyInt(4), PyDict(<<>>), DataWith(PyStr("x", FALSE)), DataWith(PyBool(FALSE))}
        \X {PyInt(3)})
    \cup ({Absent, PyStr("3", FALSE), PyBool(TRUE)} \X {Absent} \X {Absent})
    \cup ({Absent} \X {Absent, DataWith(None)} \X {PyStr("3", FALSE), PyFloat(35)})

CodeValues == {Absent, PyStr("", FALSE), PyStr("", TRUE), PyStr("A", TRUE), PyInt(7), B}

Product(code, names, scores) ==
    JsonLine(Obj(<<Pair("code", code)>> \o names \o scores), "compact", FALSE)

ExtractLines ==
    { BlankLine, BadLine,
      JsonLine(PyList(<<PyInt(1)>>), "compact", FALSE),
      JsonLine(None, "compact", FALSE),
      Product(A, <<>>, <<>>) }
    \cup { Product(A, NameMembers(f, rot, rest), <<Pair("nutriscore_score", PyInt(-1))>>) :
             f \in 1..(Len(NameFields) + 1), rot \in {1, 3}, rest \in BOOLEAN }
    \cup { Product(A, <<Pair("product_name", GoodName[1])>>, ScoreMembers(t[1], t[2], t[3])) :
             t \in ScoreTriples }
    \cup { Product(c, <<Pair("product_name", GoodName[1])>>,
                   <<Pair("nutriscore_score", PyInt(-1))>>) : c \in CodeValues }

-----------------------------------------------------------------------------
Init ==
    /\ \/ script = "dedupe" /\ input \in SeqsUpTo(DedupeLines, MaxLines)
       \/ script = "extract" /\ input \in SeqsUpTo(ExtractLines, MaxProducts)
    /\ run = 1 /\ pos = 0 /\ pc = "loop"
    /\ seen = {} /\ kept = 0 /\ written = 0 /\ total = 0
    /\ output = <<>> /\ summary = <<>>

Next ==
    \/ DedupeLine
    \/ DedupeSummary
    \/ DedupeRerun
    \/ ExtractLine
    \/ ExtractSummary

Spec == Init /\ [][Next]_vars
-----------------------------------------------------------------------------
(***************************************************************************)
(* Vocabulary of the properties.                                           *)
(***************************************************************************)
\* The object a line of text decodes to.
Rec(line) == JsonLoads(Strip(line)).value
\* The line decodes to an object whose "code" is a string.
HasStrCode(line) ==
    line.k = "json" /\ IsDict(Rec(line)) /\ IsStr(Get(Rec(line), "code"))
CodeOf(line) == Get(Rec(line), "code")
\* The i-th input line is the first one carrying its code.
FirstCarrier(i) ==
    /\ HasStrCode(input[i])
    /\ \A j \in 1..(i - 1) :
          HasStrCode(input[j]) => CodeOf(input[j]) # CodeOf(input[i])
RECURSIVE Ascending(_)
Ascending(S) ==
    IF S = {} THEN <<>>
    ELSE LET m == CHOOSE x \in S : \A y \in S : x <= y
         IN  <<m>> \o Ascending(S \ {m})
\* The loop is about to take the next line.
AtLine == pc = "loop" /\ pos < Len(input)
NextLine == input[pos + 1]
\* The step wrote a line; the entry it wrote.
Wrote == Len(output') = Len(output) + 1
Skipped == output' = output /\ pc' = "loop" /\ pos' = pos + 1
LastEntry == Rec(output'[Len(output')])

(***************************************************************************)
(* C1.  Deduplicator: after every prefix of the lines processed no two     *)
(* lines of the output carry the same "code" string, and the seen-set      *)
(* holds exactly the codes of the lines written (a code enters it in the   *)
(* step that writes its line, and only a code not yet in it is written).   *)
(***************************************************************************)
C1_NoTwoOutputLinesShareCode ==
    script = "dedupe" =>
        /\ \A i, j \in 1..Len(output) :
              i # j => CodeOf(output[i]) # CodeOf(output[j])
        /\ \A i \in 1..Len(output) : HasStrCode(output[i])
        /\ seen = {CodeOf(output[i]) : i \in 1..Len(output)}

\* Two lines were written and a third, carrying a code already seen, was dropped.
C1_Witness ==
    /\ script = "dedupe" /\ run = 1 /\ pos = 3 /\ Len(output) = 2
    /\ HasStrCode(input[3]) /\ ~FirstCarrier(3)

(***************************************************************************)
(* C2.  Deduplicator: the output is the subsequence of the input records,  *)
(* in input order, made of the first line carrying each string code; a     *)
(* later line with the same code is dropped and neither replaces nor       *)
(* reorders an earlier output line.                                        *)
(***************************************************************************)
C2_FirstOccurrenceInOrder ==
    script = "dedupe" =>
        LET idx == Ascending({i \in 1..pos : FirstCarrier(i)})
        IN  /\ Len(output) = Len(idx)
            /\ \A n \in 1..Len(idx) : Rec(output[n]) = Rec(input[idx[n]])

\* A finished run that kept two records and dropped a later line whose
\* record differs from the kept one with the same code.
C2_Witness ==
    /\ script = "dedupe" /\ run = 1 /\ pc = "done" /\ Len(output) = 2
    /\ \E i, j \in 1..Len(input) :
          /\ i < j /\ HasStrCode(input[i]) /\ HasStrCode(input[j])
          /\ CodeOf(input[i]) = CodeOf(input[j])
          /\ Rec(input[i]) # Rec(input[j])

(***************************************************************************)
(* C3.  Deduplicator: the summary of a completed run reports the number    *)
(* of input lines as read, the number of lines written (the number of      *)
(* distinct codes) as kept, and read = kept + dropped.                     *)
(***************************************************************************)
C3_SummaryAccountsForEveryLine ==
    (script = "dedupe" /\ pc = "done") =>
        /\ Len(summary) = 3
        /\ summary[1] = Len(input)
        /\ summary[2] = Len(output)
        /\ summary[2] = Cardinality(seen)
        /\ summary[1] = summary[2] + summary[3]

\* The input A, A, B: 3 read, 2 kept, 1 dropped.
C3_Witness ==
    /\ script = "dedupe" /\ run = 1 /\ pc = "done" /\ Len(input) = 3
    /\ \A i \in 1..3 : HasStrCode(input[i])
    /\ <<CodeOf(input[1]), CodeOf(input[2]), CodeOf(input[3])>> = <<A, A, B>>
    /\ <<CodeOf(output[1]), CodeOf(output[2])>> = <<A, B>>
    /\ summary = <<3, 2, 1>>

(***************************************************************************)
(* C4.  Deduplicator idempotence: run on the output of an earlier run,     *)
(* the deduplicator completes, writes an output identical to its input     *)
(* and drops no line.                                                      *)
(***************************************************************************)
C4_Idempotent ==
    (script = "dedupe" /\ run = 2) =>
        /\ pc # "crashed"
        /\ pc = "done" => /\ output = input
                          /\ kept = total
                          /\ summary[3] = 0

\* A completed second run over a two-line file.
C4_Witness ==
    /\ script = "dedupe" /\ run = 2 /\ pc = "done"
    /\ Len(input) = 2 /\ output = input

(***************************************************************************)
(* C5.  Extractor: every line of the output has exactly the fields code,   *)
(* score, name, with code and name non-empty strings and score a finite    *)
(* number.                                                                 *)
(***************************************************************************)
C5_EntriesWellFormed ==
    script = "extract" =>
        \A i \in 1..Len(output) :
            LET e == Rec(output[i])
            IN  /\ IsDict(e)
                /\ [n \in 1..Len(e.v) |-> e.v[n].k] = <<"code", "score", "name">>
                /\ IsStr(Get(e, "code")) /\ StrTruthy(Get(e, "code"))
                /\ IsStr(Get(e, "name")) /\ StrTruthy(Get(e, "name"))
                /\ Get(e, "score").t = "float"
                /\ Get(e, "score").v.c = "finite"

(***************************************************************************)
(* C6.  Extractor name resolution.                                         *)
(***************************************************************************)
\* The least index of a set of field indexes; 0 if there is none.
FirstOf(hits) ==
    IF hits = {} THEN 0 ELSE CHOOSE i \in hits : \A j \in hits : i <= j
NonEmptyStr(x) == IsStr(x) /\ StrTruthy(x)
TrimmedNonEmptyStr(x) == IsStr(x) /\ x.v.core # ""
\* The first name field, in the fixed order, holding a non-empty string.
FirstNonEmptyName(product) ==
    FirstOf({i \in 1..Len(NameFields) : NonEmptyStr(Get(product, NameFields[i]))})
\* The first name field, in the fixed order, holding a string that is
\* non-empty once trimmed.
FirstUsableName(product) ==
    FirstOf({i \in 1..Len(NameFields) : TrimmedNonEmptyStr(Get(product, NameFields[i]))})
ExtractsProduct == script = "extract" /\ AtLine /\ IsDict(Rec(NextLine))

\* C6 as stated: the emitted name is the value of the first field, in the
\* order product_name, product_name_en, generic_name, generic_name_en,
\* brands, that holds a non-empty string; with no such field the record is
\* dropped and the written count does not increment.
C6_NameIsFirstNonEmptyString ==
    [][ExtractsProduct =>
          LET product == Rec(NextLine)
              f == FirstNonEmptyName(product)
          IN  /\ Wrote => /\ f # 0
                          /\ Get(LastEntry, "name") = Get(product, NameFields[f])
              /\ f = 0 => Skipped /\ written' = written]_vars

\* C6 amended: the emitted name is the value, trimmed of surrounding
\* whitespace, of the first field in that order holding a string that is
\* non-empty after trimming; with no such field the record is dropped and
\* the written count does not increment, even when a score is present.
C6_NameIsFirstUsableStringTrimmed ==
    [][ExtractsProduct =>
          LET product == Rec(NextLine)
              f == FirstUsableName(product)
          IN  /\ Wrote => /\ f # 0
                          /\ Get(LastEntry, "name")
                                = StrStrip(Get(product, NameFields[f]))
              /\ f = 0 => Skipped /\ written' = written]_vars

\* An entry named "Fallback" was written for a record whose product_name
\* is the empty string, and a record with a score and no usable name was
\* dropped.
C6_Witness ==
    /\ script = "extract" /\ pc = "done" /\ Len(input) = 2 /\ Len(output) = 1
    /\ IsDict(Rec(input[1])) /\ IsDict(Rec(input[2]))
    /\ Get(Rec(input[1]), "product_name") = PyStr("", FALSE)
    /\ Get(Rec(output[1]), "name") = PyStr("Fallback", FALSE)
    /\ FirstUsableName(Rec(input[2])) = 0
    /\ Get(Rec(input[2]), "code") = A
    /\ Get(Rec(input[2]), "nutriscore_score") = PyInt(-1)

(***************************************************************************)
(* C7.  Extractor score resolution: the emitted score is the value,        *)
(* coerced to floating point, of the first of nutriscore_score,            *)
(* nutriscore_data.score (nutriscore_data an object),                      *)
(* nutrition_score_fr_100g that holds an integer or a floating-point       *)
(* value; strings, booleans, null, objects and arrays are passed over;     *)
(* with no such field the record is dropped.                               *)
(***************************************************************************)
IsNumber(x) == x.t \in {"int", "bigint", "float"}
ScoreFields(product) ==
    <<Get(product, "nutriscore_score"),
      IF IsDict(Get(product, "nutriscore_data"))
        THEN Get(Get(product, "nutriscore_data"), "score") ELSE None,
      Get(product, "nutrition_score_fr_100g")>>
FirstScoreField(product) ==
    FirstOf({i \in 1..3 : IsNumber(ScoreFields(product)[i])})

C7_ScoreIsFirstNumber ==
    [][ExtractsProduct =>
          LET product == Rec(NextLine)
              f == FirstScoreField(product)
          IN  /\ Wrote => /\ f # 0
                          /\ Get(LastEntry, "score") = ToFloat(ScoreFields(product)[f])
              /\ f = 0 => Skipped /\ written' = written]_vars

(***************************************************************************)
(* C8.  Both scripts: a line that is not valid JSON is skipped.  It        *)
(* writes nothing, leaves the seen-set and the kept / written counters     *)
(* unchanged, raises no error, and the loop goes on to the next line.      *)
(***************************************************************************)
C8_MalformedLineSkipped ==
    [][(AtLine /\ NextLine.k = "bad") =>
          /\ Skipped
          /\ UNCHANGED <<seen, kept, written>>
          /\ total' = total + 1]_vars

\* A run that skipped a malformed first line, wrote the record of the
\* second line and printed its summary.
C8_Witness ==
    /\ pc = "done" /\ Len(input) = 2 /\ input[1].k = "bad"
    /\ Len(output) = 1 /\ summary[1] = 2 /\ summary[2] = 1

(***************************************************************************)
(* C9.  Deduplicator: a blank line or a line that fails to parse is        *)
(* counted only in "total lines read": it changes neither the reported     *)
(* count of unique codes kept nor the reported count of duplicates         *)
(* dropped.                                                                *)
(***************************************************************************)
C9_UnparsedLineCountedOnlyInTotal ==
    [][(script = "dedupe" /\ AtLine /\ NextLine.k \in {"blank", "bad"}) =>
          /\ total' = total + 1
          /\ kept' = kept
          /\ Dropped(total', kept') = Dropped(total, kept)]_vars

(***************************************************************************)
(* C10.  Both scripts: a line that parses as JSON, whatever value it       *)
(* parses to, and yields no usable code is skipped silently: nothing is    *)
(* written and the run proceeds to the next line.                          *)
(***************************************************************************)
NoUsableCode(line) ==
    /\ line.k = "json"
    /\ \/ ~IsDict(Rec(line))
       \/ ~IsStr(Get(Rec(line), "code"))
       \/ script = "extract" /\ Get(Rec(line), "code").v.core = ""

C10_NoUsableCodeSkipped ==
    [][(AtLine /\ NoUsableCode(NextLine)) => Skipped]_vars

=============================================================================
